---- MODULE Spec2Model ----
(***************************************************************************)
(* Model of owrx/form/__init__.py: the settings-form input classes.  A     *)
(* field object is constructed, then rendered against a configuration      *)
(* snapshot or asked to parse submitted form data.                         *)
(*                                                                         *)
(* Python strings are sequences of one-character strings, so that keys     *)
(* ("{id}-{suffix}") are built by concatenation and numbers are parsed     *)
(* character by character.  Python values are tagged records.              *)
(***************************************************************************)
EXTENDS Integers, Sequences, FiniteSets, TLC

VARIABLES
    registry,   \* owrx.modes: the modulations currently available
    mapsKey,    \* Config.get()["google_maps_api_key"]
    obj,        \* the constructed field object
    ctor,       \* which constructor call made obj
    queries,    \* what obj has read from the registry, one entry per query
    config,     \* the configuration snapshot handed to render
    data,       \* the submitted form data handed to parse
    op,         \* "init", "get", "post", "render" or "parse"
    ret         \* what the last render or parse returned or raised

vars == <<registry, mapsKey, obj, ctor, queries, config, data, op, ret>>

(* ------------------------------ bounds -------------------------------- *)

\* how many strings one submitted key may carry (a repeated form key)
MaxRepeat == 2

(* ------------------------------ strings ------------------------------- *)

Digits == {"0", "1", "2", "3", "4", "5", "6", "7", "8", "9"}

DigitVal(c) ==
    CASE c = "0" -> 0 [] c = "1" -> 1 [] c = "2" -> 2 [] c = "3" -> 3
      [] c = "4" -> 4 [] c = "5" -> 5 [] c = "6" -> 6 [] c = "7" -> 7
      [] c = "8" -> 8 [] c = "9" -> 9

DigitChar(d) ==
    CASE d = 0 -> "0" [] d = 1 -> "1" [] d = 2 -> "2" [] d = 3 -> "3"
      [] d = 4 -> "4" [] d = 5 -> "5" [] d = 6 -> "6" [] d = 7 -> "7"
      [] d = 8 -> "8" [] d = 9 -> "9"

AllDigits(s) == \A i \in 1..Len(s) : s[i] \in Digits

RECURSIVE DigitsVal(_)
DigitsVal(s) ==
    IF s = <<>> THEN 0
    ELSE 10 * DigitsVal(SubSeq(s, 1, Len(s) - 1)) + DigitVal(s[Len(s)])

RECURSIVE NatStr(_)
NatStr(n) ==
    IF n < 10 THEN <<DigitChar(n)>>
    ELSE Append(NatStr(n \div 10), DigitChar(n % 10))

RECURSIVE Pow10(_)
Pow10(k) == IF k = 0 THEN 1 ELSE 10 * Pow10(k - 1)

RECURSIVE Zeros(_)
Zeros(k) == IF k = 0 THEN <<>> ELSE <<"0">> \o Zeros(k - 1)

\* position of the first "." in s, or 0
DotPos(s) ==
    IF \E i \in 1..Len(s) : s[i] = "."
    THEN CHOOSE i \in 1..Len(s) : s[i] = "." /\ \A j \in 1..(i - 1) : s[j] # "."
    ELSE 0

HasSign(s) == Len(s) > 0 /\ s[1] \in {"-", "+"}

Unsigned(s) == IF HasSign(s) THEN SubSeq(s, 2, Len(s)) ELSE s

(* ------------------------------ values -------------------------------- *)

None == [t |-> "none"]
StrV(s) == [t |-> "str", v |-> s]
IntV(n) == [t |-> "int", v |-> n]
BoolV(b) == [t |-> "bool", v |-> b]
ListV(l) == [t |-> "list", v |-> l]
EnumV(name) == [t |-> "enum", v |-> name]
\* a float is m / 10^e with no trailing zero in the fraction
FloatV(m, e) == [t |-> "float", m |-> m, e |-> e]
LocV(lat, lon) == [t |-> "loc", lat |-> lat, lon |-> lon]

RECURSIVE Normal(_, _)
Normal(m, e) ==
    IF e > 0 /\ m % 10 = 0 THEN Normal(m \div 10, e - 1) ELSE FloatV(m, e)

\* what an exception carries: its kind, the raw string it quotes, the key it names
Raise(kind, raw, key) == [t |-> "error", kind |-> kind, raw |-> raw, key |-> key]

IsError(x) == "t" \in DOMAIN x /\ x.t = "error"

\* no string at all, as opposed to the empty string <<>>
NoStr == <<"None">>

(* ---------------------- Python int() and float() ---------------------- *)

IntSyntax(s) == Unsigned(s) # <<>> /\ AllDigits(Unsigned(s))

PyInt(s) ==
    IF IntSyntax(s)
    THEN IntV((IF HasSign(s) /\ s[1] = "-" THEN -1 ELSE 1) * DigitsVal(Unsigned(s)))
    ELSE Raise("MalformedNumber", s, NoStr)

WholePart(u) == IF DotPos(u) = 0 THEN u ELSE SubSeq(u, 1, DotPos(u) - 1)

FracPart(u) == IF DotPos(u) = 0 THEN <<>> ELSE SubSeq(u, DotPos(u) + 1, Len(u))

FloatSyntax(s) ==
    LET u == Unsigned(s)
    IN  /\ AllDigits(WholePart(u))
        /\ AllDigits(FracPart(u))
        /\ WholePart(u) \o FracPart(u) # <<>>

PyFloat(s) ==
    IF FloatSyntax(s)
    THEN LET u == Unsigned(s)
             sign == IF HasSign(s) /\ s[1] = "-" THEN -1 ELSE 1
         IN  Normal(sign * DigitsVal(WholePart(u) \o FracPart(u)), Len(FracPart(u)))
    ELSE Raise("MalformedNumber", s, NoStr)

IntStr(n) == IF n < 0 THEN <<"-">> \o NatStr(-n) ELSE NatStr(n)

FloatStr(f) ==
    LET a == IF f.m < 0 THEN -f.m ELSE f.m
        whole == NatStr(a \div Pow10(f.e))
        frac == a % Pow10(f.e)
        fracStr == IF f.e = 0 THEN <<"0">>
                   ELSE Zeros(f.e - Len(NatStr(frac))) \o NatStr(frac)
    IN  (IF f.m < 0 THEN <<"-">> ELSE <<>>) \o whole \o <<".">> \o fracStr

(* --------------------- owrx.form.converter ---------------------------- *)

NullConverter == [cls |-> "NullConverter", enum |-> <<>>]
IntConverter == [cls |-> "IntConverter", enum |-> <<>>]
FloatConverter == [cls |-> "FloatConverter", enum |-> <<>>]
EnumConverter(enumCls) == [cls |-> "EnumConverter", enum |-> enumCls]

MemberNames(enumCls) == {enumCls[i].name : i \in 1..Len(enumCls)}

\* value -> display string; an absent value displays as the empty string
convert_to_form(conv, value) ==
    IF value = None THEN StrV(<<>>)
    ELSE CASE conv.cls = "NullConverter" -> value
           [] conv.cls = "IntConverter" -> StrV(IntStr(value.v))
           [] conv.cls = "FloatConverter" -> StrV(FloatStr(value))
           [] conv.cls = "EnumConverter" -> StrV(value.v)

\* submitted string -> value, or the error raised
convert_from_form(conv, s) ==
    CASE conv.cls = "NullConverter" -> StrV(s)
      [] conv.cls = "IntConverter" -> PyInt(s)
      [] conv.cls = "FloatConverter" -> PyFloat(s)
      [] conv.cls = "EnumConverter" ->
            IF s \in MemberNames(conv.enum) THEN EnumV(s)
            ELSE Raise("UnknownEnumMember", s, NoStr)

(* ----------------------------- fields --------------------------------- *)

Option(value, text) == [value |-> value, text |-> text]

defaultConverter(cls) ==
    CASE cls = "NumberInput" -> IntConverter
      [] cls = "FloatInput" -> FloatConverter
      [] OTHER -> NullConverter

\* Input.__init__; the attributes a subclass does not set are None
InputInit(cls, id, label, infotext, converter) ==
    [cls |-> cls, id |-> id, label |-> label, infotext |-> infotext,
     converter |-> IF converter = None THEN defaultConverter(cls) ELSE converter,
     options |-> <<>>, step |-> None, append |-> <<>>, checkboxText |-> <<>>]

TextInput(id, label, infotext, converter) ==
    InputInit("TextInput", id, label, infotext, converter)

TextAreaInput(id, label, infotext, converter) ==
    InputInit("TextAreaInput", id, label, infotext, converter)

NumberInit(cls, id, label, infotext, append, converter) ==
    [InputInit(cls, id, label, infotext, converter) EXCEPT !.step = None, !.append = append]

NumberInput(id, label, infotext, append, converter) ==
    NumberInit("NumberInput", id, label, infotext, append, converter)

FloatInput(id, label, infotext, converter) ==
    [NumberInit("FloatInput", id, label, infotext, <<>>, converter)
        EXCEPT !.step = StrV(<<"a", "n", "y">>)]

LocationInput(id, label, infotext, converter) ==
    InputInit("LocationInput", id, label, infotext, converter)

CheckboxInput(id, label, checkboxText, infotext) ==
    [InputInit("CheckboxInput", id, label, infotext, None) EXCEPT !.checkboxText = checkboxText]

MultiCheckboxInit(cls, id, label, options, infotext) ==
    [InputInit(cls, id, label, infotext, None) EXCEPT !.options = options]

MultiCheckboxInput(id, label, options, infotext) ==
    MultiCheckboxInit("MultiCheckboxInput", id, label, options, infotext)

\* DropdownEnum.toOption: Option(self.name, str(self))
toOption(member) == Option(member.name, member.str)

MapToOption(enumCls) == [i \in 1..Len(enumCls) |-> toOption(enumCls[i])]

\* options is either an enumeration class or a list of Option
isEnum(options) == options.t = "enumcls"

DropdownInput(id, label, options, infotext, converter) ==
    [InputInit("DropdownInput", id, label, infotext,
               IF isEnum(options) /\ converter = None
               THEN EnumConverter(options.v) ELSE converter)
        EXCEPT !.options = IF isEnum(options) THEN MapToOption(options.v) ELSE options.v]

(* ------------------------ owrx.modes registry ------------------------- *)

\* the modes the receiver knows, in their fixed order; registry is the set
\* of modulations whose requirements are currently met
ModePool ==
    << [modulation |-> <<"n", "f", "m">>, name |-> <<"F", "M">>, service |-> FALSE],
       [modulation |-> <<"f", "t", "8">>, name |-> <<"F", "T", "8">>, service |-> TRUE],
       [modulation |-> <<"w", "s", "p", "r">>, name |-> <<"W", "S", "P", "R">>, service |-> TRUE] >>

Modulations == {ModePool[i].modulation : i \in 1..Len(ModePool)}

ServiceModulations ==
    {ModePool[i].modulation : i \in {j \in 1..Len(ModePool) : ModePool[j].service}}

\* the analogue modes need nothing; each service mode may come and go
Registries == {(Modulations \ ServiceModulations) \cup S : S \in SUBSET ServiceModulations}

getAvailableServices(reg) ==
    SelectSeq(ModePool, LAMBDA m : m.service /\ m.modulation \in reg)

ServiceOptions(services) ==
    [i \in 1..Len(services) |-> Option(services[i].modulation, services[i].name)]

\* options with the service's name as value and its modulation as text
ServicesCheckboxInputSwapped(id, label, infotext, reg) ==
    MultiCheckboxInit("ServicesCheckboxInput", id, label,
                      [i \in 1..Len(getAvailableServices(reg)) |->
                          Option(getAvailableServices(reg)[i].name,
                                 getAvailableServices(reg)[i].modulation)],
                      infotext)

ServicesCheckboxInput(id, label, infotext, reg) ==
    MultiCheckboxInit("ServicesCheckboxInput", id, label,
                      ServiceOptions(getAvailableServices(reg)), infotext)

(* ------------------------------ parse --------------------------------- *)

Patch(f) == [t |-> "patch", v |-> f]

EmptyPatch == Patch(<<>>)

On == <<"o", "n">>

\* a parse that reads the last of a repeated key's strings
InputParseLast(f, d) ==
    IF f.id \in DOMAIN d
    THEN LET v == convert_from_form(f.converter, d[f.id][Len(d[f.id])])
         IN  IF IsError(v) THEN v ELSE Patch(f.id :> v)
    ELSE EmptyPatch

\* a parse that treats a rejected string like an absent key
InputParseSwallow(f, d) ==
    IF f.id \in DOMAIN d
    THEN LET v == convert_from_form(f.converter, d[f.id][1])
         IN  IF IsError(v) THEN EmptyPatch ELSE Patch(f.id :> v)
    ELSE EmptyPatch

\* Input.parse
InputParse(f, d) ==
    IF f.id \in DOMAIN d
    THEN LET v == convert_from_form(f.converter, d[f.id][1])
         IN  IF IsError(v) THEN v ELSE Patch(f.id :> v)
    ELSE EmptyPatch

SubKey(f, k) == f.id \o <<"-">> \o k

Lat == <<"l", "a", "t">>
Lon == <<"l", "o", "n">>

\* float(data["{id}-{k}"][0]): KeyError when the key is missing, ValueError from float()
SubValue(f, d, k) ==
    IF SubKey(f, k) \in DOMAIN d
    THEN PyFloat(d[SubKey(f, k)][1])
    ELSE Raise("MissingCompositeComponent", NoStr, SubKey(f, k))

\* a parse that visits "lon" before "lat"
LocationParseLonFirst(f, d) ==
    LET lon == SubValue(f, d, Lon)
    IN  IF IsError(lon) THEN lon
        ELSE LET lat == SubValue(f, d, Lat)
             IN  IF IsError(lat) THEN lat
                 ELSE Patch(f.id :> LocV(lat, lon))

\* LocationInput.parse: the comprehension visits "lat" and then "lon"
LocationParse(f, d) ==
    LET lat == SubValue(f, d, Lat)
    IN  IF IsError(lat) THEN lat
        ELSE LET lon == SubValue(f, d, Lon)
             IN  IF IsError(lon) THEN lon
                 ELSE Patch(f.id :> LocV(lat, lon))

\* a parse that takes an "on" under any submitted key for its own
CheckboxParseAnyKey(f, d) == Patch(f.id :> BoolV(\E k \in DOMAIN d : d[k][1] = On))

\* a parse that takes any submitted string for a checked box
CheckboxParsePresent(f, d) == Patch(f.id :> BoolV(f.id \in DOMAIN d))

\* CheckboxInput.parse
CheckboxParse(f, d) == Patch(f.id :> BoolV(f.id \in DOMAIN d /\ d[f.id][1] = On))

checkbox_id(f, option) == f.id \o <<"-">> \o option.value

\* a test that looks at every string of a repeated key
in_response_any(f, d, option) ==
    /\ checkbox_id(f, option) \in DOMAIN d
    /\ \E i \in 1..Len(d[checkbox_id(f, option)]) : d[checkbox_id(f, option)][i] = On

in_response(f, d, option) ==
    checkbox_id(f, option) \in DOMAIN d /\ d[checkbox_id(f, option)][1] = On

OptionValues(options) == [i \in 1..Len(options) |-> options[i].value]

\* a parse that asks the registry for the services again instead of going
\* by the options the field was constructed with
MultiCheckboxParseLive(f, d) ==
    LET options == IF f.cls = "ServicesCheckboxInput"
                   THEN ServiceOptions(getAvailableServices(registry))
                   ELSE f.options
    IN  Patch(f.id :> ListV(OptionValues(SelectSeq(options, LAMBDA o : in_response(f, d, o)))))

\* MultiCheckboxInput.parse
MultiCheckboxParse(f, d) ==
    Patch(f.id :> ListV(OptionValues(SelectSeq(f.options, LAMBDA o : in_response(f, d, o)))))

IsMulti(f) == f.cls \in {"MultiCheckboxInput", "ServicesCheckboxInput"}

\* method resolution of f.parse(d)
ParseOf(f, d) ==
    CASE f.cls = "LocationInput" -> LocationParse(f, d)
      [] f.cls = "CheckboxInput" -> CheckboxParse(f, d)
      [] IsMulti(f) -> MultiCheckboxParse(f, d)
      [] OTHER -> InputParse(f, d)

(* ------------------------------ render -------------------------------- *)

\* "{value}".format(value=v): str(v)
Format(v) ==
    CASE v.t = "str" -> v.v
      [] v.t = "int" -> IntStr(v.v)
      [] v.t = "float" -> FloatStr(v)
      [] v.t = "bool" -> IF v.v THEN <<"T", "r", "u", "e">> ELSE <<"F", "a", "l", "s", "e">>
      [] v.t = "none" -> <<"N", "o", "n", "e">>
      [] v.t = "enum" -> v.v
      [] OTHER -> <<"<", "o", "b", "j", "e", "c", "t", ">">>

\* Python truth value
Truthy(v) ==
    CASE v.t = "bool" -> v.v
      [] v.t = "none" -> FALSE
      [] v.t = "str" -> v.v # <<>>
      [] v.t = "list" -> v.v # <<>>
      [] v.t = "int" -> v.v # 0
      [] v.t = "float" -> v.m # 0
      [] OTHER -> TRUE

IsSubstring(x, s) ==
    \E i \in 0..(Len(s) - Len(x)) : SubSeq(s, i + 1, i + Len(x)) = x

\* the values that support "x in value"
IsContainer(value) == value.t \in {"list", "str"}

\* x in value, for a string x
PyIn(x, value) ==
    IF value.t = "list" THEN \E i \in 1..Len(value.v) : value.v[i] = x
    ELSE IsSubstring(x, value.v)

\* option.value == value
PyEq(x, value) == value.t = "str" /\ value.v = x

input_classes(f) ==
    IF f.cls = "CheckboxInput" \/ IsMulti(f)
    THEN <<"form-check", "form-control-sm">>
    ELSE <<"form-control", "form-control-sm">>

TextRender(f, value) ==
    [tag |-> "input", type |-> "text", classes |-> input_classes(f), id |-> f.id,
     name |-> f.id, placeholder |-> f.label, value |-> Format(value)]

NumberRender(f, value) ==
    [tag |-> "input", type |-> "number", classes |-> input_classes(f), id |-> f.id,
     name |-> f.id, placeholder |-> f.label, value |-> Format(value),
     step |-> IF Truthy(f.step) THEN Format(f.step) ELSE <<>>,
     append |-> f.append]

TextAreaRender(f, value) ==
    [tag |-> "textarea", classes |-> input_classes(f), id |-> f.id, name |-> f.id,
     value |-> Format(value)]

\* LocationInput.render_sub_input: value[id] needs a mapping
render_sub_input(f, value, k) ==
    IF value.t = "loc"
    THEN [tag |-> "input", type |-> "number", classes |-> input_classes(f),
          id |-> SubKey(f, k), name |-> SubKey(f, k), placeholder |-> f.label,
          value |-> Format(IF k = Lat THEN value.lat ELSE value.lon)]
    ELSE Raise("TypeError", NoStr, NoStr)

\* LocationInput.render_input; key is Config.get()["google_maps_api_key"]
LocationRender(f, value, key) ==
    LET lat == render_sub_input(f, value, Lat)
        lon == render_sub_input(f, value, Lon)
    IN  IF IsError(lat) THEN lat
        ELSE IF IsError(lon) THEN lon
        ELSE [tag |-> "location", inputs |-> <<lat, lon>>, key |-> key, for |-> f.id]

CheckboxRender(f, value) ==
    [tag |-> "input", type |-> "checkbox", classes |-> input_classes(f), id |-> f.id,
     name |-> f.id, checked |-> Truthy(value), checkboxText |-> f.checkboxText]

\* a box checked by looking for the option's text among the values
render_checkbox_text(f, option, value) ==
    IF IsContainer(value)
    THEN [tag |-> "input", type |-> "checkbox", classes |-> input_classes(f),
          id |-> checkbox_id(f, option), name |-> checkbox_id(f, option),
          checked |-> PyIn(option.text, value), checkboxText |-> option.text]
    ELSE Raise("TypeError", NoStr, NoStr)

\* MultiCheckboxInput.render_checkbox
render_checkbox(f, option, value) ==
    IF IsContainer(value)
    THEN [tag |-> "input", type |-> "checkbox", classes |-> input_classes(f),
          id |-> checkbox_id(f, option), name |-> checkbox_id(f, option),
          checked |-> PyIn(option.value, value), checkboxText |-> option.text]
    ELSE Raise("TypeError", NoStr, NoStr)

\* MultiCheckboxInput.render_input
MultiCheckboxRender(f, value) ==
    LET boxes == [i \in 1..Len(f.options) |-> render_checkbox(f, f.options[i], value)]
    IN  IF \E i \in 1..Len(boxes) : IsError(boxes[i])
        THEN boxes[CHOOSE i \in 1..Len(boxes) :
                     IsError(boxes[i]) /\ \A j \in 1..(i - 1) : ~IsError(boxes[j])]
        ELSE [tag |-> "checkboxes", boxes |-> boxes]

\* options marked by comparing the display text with the value
render_options_text(f, value) ==
    [i \in 1..Len(f.options) |->
        [tag |-> "option", value |-> f.options[i].value, text |-> f.options[i].text,
         selected |-> PyEq(f.options[i].text, value)]]

\* DropdownInput.render_options
render_options(f, value) ==
    [i \in 1..Len(f.options) |->
        [tag |-> "option", value |-> f.options[i].value, text |-> f.options[i].text,
         selected |-> PyEq(f.options[i].value, value)]]

DropdownRender(f, value) ==
    [tag |-> "select", classes |-> input_classes(f), id |-> f.id, name |-> f.id,
     options |-> render_options(f, value)]

\* method resolution of f.render_input(value)
render_input(f, value, key) ==
    CASE f.cls = "TextInput" -> TextRender(f, value)
      [] f.cls \in {"NumberInput", "FloatInput"} -> NumberRender(f, value)
      [] f.cls = "TextAreaInput" -> TextAreaRender(f, value)
      [] f.cls = "LocationInput" -> LocationRender(f, value, key)
      [] f.cls = "CheckboxInput" -> CheckboxRender(f, value)
      [] f.cls = "DropdownInput" -> DropdownRender(f, value)
      [] IsMulti(f) -> MultiCheckboxRender(f, value)

bootstrap_decorate(f, input) ==
    [t |-> "markup", for |-> f.id, label |-> f.label, input |-> input,
     infotext |-> IF f.infotext # <<>>
                  THEN <<"<small>">> \o f.infotext \o <<"</small>">> ELSE <<>>]

\* Input.render
RenderOf(f, cfg, key) ==
    LET value == IF f.id \in DOMAIN cfg THEN cfg[f.id] ELSE None
        input == render_input(f, convert_to_form(f.converter, value), key)
    IN  IF IsError(input) THEN input ELSE bootstrap_decorate(f, input)

(* ------------------------- the fields in use --------------------------- *)

Sideband ==
    << [name |-> <<"U", "S", "B">>, str |-> <<"u", "p", "p", "e", "r">>],
       [name |-> <<"L", "S", "B">>, str |-> <<"l", "o", "w", "e", "r">>],
       [name |-> <<"C", "W">>, str |-> <<"c", "w">>] >>

Single == << [name |-> <<"A">>, str |-> <<"a">>] >>

EnumCls(members) == [t |-> "enumcls", v |-> members]

Abc ==
    << Option(<<"A">>, <<"a">>), Option(<<"B">>, <<"b">>), Option(<<"C">>, <<"c">>) >>

\* the enumeration a dropdown kind is built from
EnumArg(k) == IF k = "enum1" THEN Single ELSE Sideband

\* the converter the caller passes, None when it passes none
ConverterArg(k) == IF k = "enumNull" THEN NullConverter ELSE None

EnumKinds == {"enum", "enum1", "enumNull"}

Kinds ==
    {"text", "number", "float", "textarea", "dropdown", "enum", "enum1", "enumNull",
     "checkbox", "multi", "services", "location"}

Help == <<"h", "e", "l", "p">>

\* the constructor call each kind stands for
Build(k, reg) ==
    CASE k = "text" -> TextInput(<<"n", "a", "m", "e">>, <<"N">>, <<>>, None)
      [] k = "number" -> NumberInput(<<"n", "u", "m">>, <<"N">>, Help, <<"H", "z">>, None)
      [] k = "float" -> FloatInput(<<"f", "l", "t">>, <<"F">>, <<>>, None)
      [] k = "textarea" -> TextAreaInput(<<"t", "x", "t">>, <<"T">>, <<>>, None)
      [] k = "dropdown" -> DropdownInput(<<"d", "d">>, <<"D">>, ListV(Abc), <<>>, None)
      [] k \in EnumKinds ->
            DropdownInput(<<"s", "b">>, <<"S">>, EnumCls(EnumArg(k)), <<>>, ConverterArg(k))
      [] k = "checkbox" -> CheckboxInput(<<"f", "l", "a", "g">>, <<"F">>, <<"e", "n">>, Help)
      [] k = "multi" -> MultiCheckboxInput(<<"s", "e", "l">>, <<"S">>, Abc, <<>>)
      [] k = "services" -> ServicesCheckboxInput(<<"s", "v", "c">>, <<"S">>, <<>>, reg)
      [] k = "location" -> LocationInput(<<"p", "o", "s">>, <<"P">>, <<>>, None)

IsScalar(f) ==
    f.cls \in {"TextInput", "NumberInput", "FloatInput", "TextAreaInput", "DropdownInput"}

(* ------------------------- submitted form data ------------------------- *)

RawStrings ==
    { <<>>, On, <<"1", "2">>, <<"-", "3">>, <<"1", ".", "5">>, <<"x">>,
      <<"U", "S", "B">>, <<"A">> }

CheckStrings == { On, <<"o", "f", "f">>, <<>> }

LocStrings ==
    { <<"1", "2", ".", "5">>, <<"-", "3", ".", "2", "5">>, <<"a", "b", "c">>, <<>>, <<"7">> }

\* the strings a repeated key carries after its first one
Repeats(n) == [i \in 1..n |-> IF i % 2 = 1 THEN On ELSE <<"7">>]

\* a key's strings: one of firsts, repeated up to MaxRepeat times in all
Lists(firsts) == { <<s>> \o Repeats(n) : s \in firsts, n \in 0..(MaxRepeat - 1) }

\* the keys the field reads
OwnKeys(f) ==
    CASE f.cls = "LocationInput" -> {SubKey(f, Lat), SubKey(f, Lon)}
      [] IsMulti(f) -> {checkbox_id(f, f.options[i]) : i \in 1..Len(f.options)}
      [] OTHER -> {f.id}

\* the keys a form for the field may carry: a services form may have been
\* rendered when other services were available
FormKeys(f) ==
    IF f.cls = "ServicesCheckboxInput"
    THEN {f.id \o <<"-">> \o m : m \in ServiceModulations}
    ELSE OwnKeys(f)

\* a key of the same form that belongs to some other field
OtherKey(f) == f.id \o <<"-", "x">>

FirstStrings(f) ==
    CASE f.cls = "LocationInput" -> LocStrings
      [] f.cls = "CheckboxInput" \/ IsMulti(f) -> CheckStrings
      [] OTHER -> RawStrings

Present(g) == [k \in {x \in DOMAIN g : g[x] # <<>>} |-> g[k]]

\* every submission over the field's keys and the other key; <<>> marks an absent key
Submissions(f) ==
    { Present(g) : g \in [FormKeys(f) \cup {OtherKey(f)} -> {<<>>} \cup Lists(FirstStrings(f))] }

(* ----------------------- configuration snapshots ----------------------- *)

Floats == { FloatV(125, 1), FloatV(-325, 2), FloatV(0, 0) }

Sublists(options) ==
    { OptionValues(SelectSeq(options, LAMBDA o : o.value \in S)) :
        S \in SUBSET {options[i].value : i \in 1..Len(options)} }

\* the typed values the configuration may hold for the field
Values(f) ==
    CASE f.cls \in {"TextInput", "TextAreaInput"} -> {StrV(<<>>), StrV(<<"x">>), StrV(On)}
      [] f.cls = "NumberInput" -> {IntV(-12), IntV(0), IntV(7)}
      [] f.cls = "FloatInput" -> Floats
      [] f.cls = "DropdownInput" /\ f.converter.cls = "NullConverter" /\ f.options = Abc ->
            {StrV(<<"A">>), StrV(<<"C">>), StrV(<<"Z">>)}
      [] f.cls = "DropdownInput" /\ f.options # Abc ->
            {EnumV(f.options[i].value) : i \in 1..Len(f.options)}
      [] f.cls = "CheckboxInput" -> {BoolV(TRUE), BoolV(FALSE)}
      [] f.cls = "MultiCheckboxInput" ->
            {ListV(l) : l \in Sublists(f.options)}
                \cup {ListV(<<<<"Z">>, <<"B">>>>), ListV(<<<<"C">>, <<"A">>>>)}
      [] f.cls = "ServicesCheckboxInput" ->
            {ListV(l) : l \in Sublists(ServiceOptions(getAvailableServices(Modulations)))}
      [] f.cls = "LocationInput" -> {LocV(a, b) : a \in Floats, b \in Floats}

Snapshots(f) ==
    {<<>>, OtherKey(f) :> StrV(<<"q">>)}
        \cup {f.id :> v : v \in Values(f)}
        \cup {(f.id :> v) @@ (OtherKey(f) :> StrV(<<"q">>)) : v \in Values(f)}

MapsKeys == { <<>>, <<"k", "1">> }

(* ------------------------------ actions -------------------------------- *)

\* a field object is constructed; ServicesCheckboxInput reads the registry
Construct(k) ==
    /\ obj' = Build(k, registry)
    /\ ctor' = k
    /\ queries' = IF k = "services" THEN <<registry>> ELSE <<>>
    /\ config' = <<>>
    /\ data' = <<>>
    /\ op' = "init"
    /\ ret' = None
    /\ UNCHANGED <<registry, mapsKey>>

\* a mode's requirements appear or disappear
RegistryChange ==
    /\ \E r \in Registries \ {registry} : registry' = r
    /\ UNCHANGED <<mapsKey, obj, ctor, queries, config, data, op, ret>>

\* the map key in the global configuration is edited
SetMapsKey ==
    /\ \E k \in MapsKeys \ {mapsKey} : mapsKey' = k
    /\ UNCHANGED <<registry, obj, ctor, queries, config, data, op, ret>>

\* the caller loads the configuration for a form page
NewSnapshot ==
    /\ op = "init"
    /\ \E c \in Snapshots(obj) : config' = c
    /\ op' = "get"
    /\ UNCHANGED <<registry, mapsKey, obj, ctor, queries, data, ret>>

\* the caller receives a form submission
NewSubmission ==
    /\ op = "init"
    /\ \E d \in Submissions(obj) : data' = d
    /\ op' = "post"
    /\ UNCHANGED <<registry, mapsKey, obj, ctor, queries, config, ret>>

\* obj.render(config)
Render ==
    /\ op \in {"get", "render"}
    /\ ret' = RenderOf(obj, config, mapsKey)
    /\ op' = "render"
    /\ UNCHANGED <<registry, mapsKey, obj, ctor, queries, config, data>>

\* obj.parse(data)
Parse ==
    /\ op \in {"post", "parse"}
    /\ ret' = ParseOf(obj, data)
    /\ op' = "parse"
    /\ UNCHANGED <<registry, mapsKey, obj, ctor, queries, config, data>>

\* the form a render produced comes back as the browser submits it: each
\* checked box sends its name with the string "on", an unchecked box nothing
Submitted(boxes) ==
    [k \in {boxes[i].name : i \in {j \in 1..Len(boxes) : boxes[j].checked}} |-> <<On>>]

SubmitRendered ==
    /\ op = "render"
    /\ IsMulti(obj)
    /\ ~IsError(ret)
    /\ data' = Submitted(ret.input.boxes)
    /\ op' = "post"
    /\ UNCHANGED <<registry, mapsKey, obj, ctor, queries, config, ret>>

\* the request is over; the field object stays
EndRequest ==
    /\ op \in {"render", "parse"}
    /\ config' = <<>>
    /\ data' = <<>>
    /\ op' = "init"
    /\ ret' = None
    /\ UNCHANGED <<registry, mapsKey, obj, ctor, queries>>

Init ==
    /\ registry \in Registries
    /\ mapsKey \in MapsKeys
    /\ \E k \in Kinds :
        /\ obj = Build(k, registry)
        /\ ctor = k
        /\ queries = IF k = "services" THEN <<registry>> ELSE <<>>
    /\ config = <<>>
    /\ data = <<>>
    /\ op = "init"
    /\ ret = None

Next ==
    \/ \E k \in Kinds : Construct(k)
    \/ RegistryChange
    \/ SetMapsKey
    \/ NewSnapshot
    \/ NewSubmission
    \/ Render
    \/ Parse
    \/ SubmitRendered
    \/ EndRequest

Spec == Init /\ [][Next]_vars

(* ------------------------------ claims --------------------------------- *)

Parsed == op = "parse"

Rendered == op = "render"

IsPatch(r) == r.t = "patch"

\* the patch has exactly one entry, for the field's id, and it is v
OneEntry(r, f, v) == IsPatch(r) /\ DOMAIN r.v = {f.id} /\ r.v[f.id] = v

\* C1: a scalar field's parse returns the empty patch when its id is not a
\* submitted key; otherwise its result is the converter applied to the first
\* string submitted for the id, as the single entry of the patch (a converter
\* that raises makes the parse raise the same error)
C1_ScalarParse ==
    (Parsed /\ IsScalar(obj)) =>
        IF obj.id \notin DOMAIN data
        THEN IsPatch(ret) /\ DOMAIN ret.v = {}
        ELSE LET v == convert_from_form(obj.converter, data[obj.id][1])
             IN  IF IsError(v) THEN ret = v ELSE OneEntry(ret, obj, v)

\* a number field parsed a repeated key whose later string is not a number
C1_Witness ==
    /\ Parsed
    /\ obj.cls = "NumberInput"
    /\ obj.id \in DOMAIN data
    /\ data[obj.id] = << <<"-", "3">>, On >>
    /\ OneEntry(ret, obj, IntV(-3))

\* C2: a checkbox's parse always returns one entry for its id: true exactly
\* when the id is submitted and its first string is "on", false otherwise
C2_CheckboxParse ==
    (Parsed /\ obj.cls = "CheckboxInput") =>
        /\ IsPatch(ret)
        /\ DOMAIN ret.v = {obj.id}
        /\ ret.v[obj.id].t = "bool"
        /\ ret.v[obj.id].v <=> (obj.id \in DOMAIN data /\ Head(data[obj.id]) = On)

\* a checkbox parsed "off" followed by "on" and answered false
C2_Witness ==
    /\ Parsed
    /\ obj.cls = "CheckboxInput"
    /\ obj.id \in DOMAIN data
    /\ data[obj.id] = << <<"o", "f", "f">>, On >>
    /\ ret = Patch(obj.id :> BoolV(FALSE))

\* the options whose box came back checked
Checked(f, d) ==
    {i \in 1..Len(f.options) :
        LET key == f.id \o <<"-">> \o f.options[i].value
        IN  key \in DOMAIN d /\ Head(d[key]) = On}

\* l lists the values of the options in I, in declaration order, each once
ListsInOrder(l, f, I) ==
    /\ Len(l) = Cardinality(I)
    /\ \A n \in 1..Len(l) : \E i \in I : l[n] = f.options[i].value
    /\ \A n, m \in 1..Len(l) :
          n < m => \E i, j \in I :
                      i < j /\ l[n] = f.options[i].value /\ l[m] = f.options[j].value

\* C3: a multi-checkbox's parse always returns one entry for its id: the
\* values of the options whose key "{id}-{value}" is submitted with first
\* string "on", in declaration order; the empty list when there is none
C3_MultiCheckboxParse ==
    (Parsed /\ IsMulti(obj)) =>
        /\ IsPatch(ret)
        /\ DOMAIN ret.v = {obj.id}
        /\ ret.v[obj.id].t = "list"
        /\ ListsInOrder(ret.v[obj.id].v, obj, Checked(obj, data))

\* options A, B, C: A and C came back "on", B came back "off" and then "on"
C3_Witness ==
    /\ Parsed
    /\ obj.cls = "MultiCheckboxInput"
    /\ DOMAIN data = {checkbox_id(obj, obj.options[i]) : i \in 1..3}
    /\ data[checkbox_id(obj, obj.options[2])] = << <<"o", "f", "f">>, On >>
    /\ ret = Patch(obj.id :> ListV(<< <<"A">>, <<"C">> >>))


IsLocation(f) == f.cls = "LocationInput"

Absent(k) == SubKey(obj, k) \notin DOMAIN data

Unparseable(k) == ~Absent(k) /\ ~FloatSyntax(Head(data[SubKey(obj, k)]))

Good(k) == ~Absent(k) /\ FloatSyntax(Head(data[SubKey(obj, k)]))

Fails(r, kind) == IsError(r) /\ r.kind = kind

\* a patch of a location has the id as its only entry, with lat and lon
Whole(r) ==
    IsPatch(r) => /\ DOMAIN r.v = {obj.id}
                  /\ DOMAIN r.v[obj.id] = {"t", "lat", "lon"}
                  /\ r.v[obj.id].lat.t = "float"
                  /\ r.v[obj.id].lon.t = "float"

BothGood ==
    (Good(Lat) /\ Good(Lon)) =>
        OneEntry(ret, obj, LocV(PyFloat(Head(data[SubKey(obj, Lat)])),
                                PyFloat(Head(data[SubKey(obj, Lon)]))))

\* C4 as claimed: a location's parse fails with MissingCompositeComponent
\* when either sub-key is absent and with MalformedNumber when either is
\* unparseable
C4_AsClaimed ==
    (Parsed /\ IsLocation(obj)) =>
        /\ BothGood
        /\ (Absent(Lat) \/ Absent(Lon)) => Fails(ret, "MissingCompositeComponent")
        /\ (Unparseable(Lat) \/ Unparseable(Lon)) => Fails(ret, "MalformedNumber")
        /\ Whole(ret)

\* C4: a location's parse is all or nothing: with both sub-keys present and
\* parseable it returns {id: {lat, lon}}; otherwise it fails with the error of
\* the first failing component in the order lat, lon:
\* MissingCompositeComponent if that one is absent, MalformedNumber if it is
\* unparseable; it never returns a patch without the id or with one component
C4_LocationParse ==
    (Parsed /\ IsLocation(obj)) =>
        /\ BothGood
        /\ Absent(Lat) => Fails(ret, "MissingCompositeComponent")
        /\ Unparseable(Lat) => Fails(ret, "MalformedNumber")
        /\ (Good(Lat) /\ Absent(Lon)) => Fails(ret, "MissingCompositeComponent")
        /\ (Good(Lat) /\ Unparseable(Lon)) => Fails(ret, "MalformedNumber")
        /\ Whole(ret)

\* lat is submitted but unparseable and lon is absent: the parse has failed
\* on lat
C4_Witness ==
    /\ Parsed
    /\ IsLocation(obj)
    /\ Unparseable(Lat)
    /\ Absent(Lon)
    /\ Fails(ret, "MalformedNumber")
    /\ ret.raw = Head(data[SubKey(obj, Lat)])

\* C5 as claimed: render returns markup for every field and every snapshot,
\* a snapshot without the field's id included
C5_RenderTotal == Rendered => ~IsError(ret)

\* the string a scalar field hands to its converter, rejected
Rejected ==
    /\ IsScalar(obj)
    /\ obj.id \in DOMAIN data
    /\ IsError(convert_from_form(obj.converter, Head(data[obj.id])))

\* the first location component, lat before lon, that is absent or unparseable
FirstBad == IF Good(Lat) THEN Lon ELSE Lat

LocationFailure == IsLocation(obj) /\ ~(Good(Lat) /\ Good(Lon))

\* the error names the field: its id or one of its keys
NamesField(e, f) == e.key = f.id \/ e.key \in OwnKeys(f)

\* C6 as claimed: a conversion failure in parse reaches the caller as an
\* error that identifies the field id and the raw submitted value
C6_AsClaimed ==
    Parsed =>
        /\ Rejected =>
              IsError(ret) /\ NamesField(ret, obj) /\ ret.raw = Head(data[obj.id])
        /\ LocationFailure =>
              /\ IsError(ret)
              /\ NamesField(ret, obj)
              /\ ~Absent(FirstBad) => ret.raw = Head(data[SubKey(obj, FirstBad)])

\* C6: a conversion failure in parse yields no patch and no default: the
\* caller gets the error the converter, float() or the key lookup raised,
\* unchanged.  A rejected string is quoted by the error, which names no field;
\* a missing location sub-key is named by the error, which quotes no string
C6_FailurePropagates ==
    Parsed =>
        /\ Rejected =>
              /\ ret = convert_from_form(obj.converter, Head(data[obj.id]))
              /\ ret.kind \in {"MalformedNumber", "UnknownEnumMember"}
              /\ ret.raw = Head(data[obj.id])
              /\ ret.key = NoStr
        /\ (LocationFailure /\ Absent(FirstBad)) =>
              /\ Fails(ret, "MissingCompositeComponent")
              /\ ret.key = SubKey(obj, FirstBad)
              /\ ret.raw = NoStr
        /\ (LocationFailure /\ ~Absent(FirstBad)) =>
              /\ Fails(ret, "MalformedNumber")
              /\ ret.raw = Head(data[SubKey(obj, FirstBad)])
              /\ ret.key = NoStr

\* a number field was sent "x": the caller holds the converter's error
C6_Witness ==
    /\ Parsed
    /\ obj.cls = "NumberInput"
    /\ obj.id \in DOMAIN data
    /\ Head(data[obj.id]) = <<"x">>
    /\ Fails(ret, "MalformedNumber")
    /\ ret.raw = <<"x">>


Selected(markup) ==
    {i \in 1..Len(markup.input.options) : markup.input.options[i].selected}

IsServices(f) == f.cls = "ServicesCheckboxInput"

Elements(l) == {l[i] : i \in 1..Len(l)}

\* the service modes available in registry state reg, in registry order
Available(reg) == SelectSeq(ModePool, LAMBDA m : m.service /\ m.modulation \in reg)

\* C8: a services field has read the registry once, when constructed; its
\* options are the services available then (value the modulation, text the
\* name, in registry order); every later render and parse goes by them,
\* whatever the registry holds by then; parsed by an instance constructed from
\* the registry as it is now, the list holds only services available now
C8_ServicesAtConstruction ==
    IsServices(obj) =>
        /\ Len(queries) = 1
        /\ LET then == Available(queries[1])
           IN  /\ Len(obj.options) = Len(then)
               /\ \A i \in 1..Len(then) :
                     /\ obj.options[i].value = then[i].modulation
                     /\ obj.options[i].text = then[i].name
               /\ (Rendered /\ ~IsError(ret)) =>
                     /\ Len(ret.input.boxes) = Len(then)
                     /\ \A i \in 1..Len(then) :
                           ret.input.boxes[i].name = obj.id \o <<"-">> \o then[i].modulation
               /\ Parsed =>
                     Elements(ret.v[obj.id].v) =
                        {then[i].modulation : i \in
                            {j \in 1..Len(then) :
                                LET key == obj.id \o <<"-">> \o then[j].modulation
                                IN  key \in DOMAIN data /\ Head(data[key]) = On}}
        /\ (Parsed /\ queries[1] = registry) => Elements(ret.v[obj.id].v) \subseteq registry

\* an instance kept while a service went away still parses that service
C8_Witness ==
    /\ IsServices(obj)
    /\ Parsed
    /\ queries[1] # registry
    /\ \E m \in Elements(ret.v[obj.id].v) : m \notin registry

\* the submitted entries under the field's own keys
OwnData(f, d) == [k \in DOMAIN d \cap OwnKeys(f) |-> d[k]]

\* two markups of a location that differ at most in the map key
SameButKey(a, b) ==
    /\ ~IsError(a)
    /\ ~IsError(b)
    /\ [b EXCEPT !.input.key = a.input.key] = a

\* C9 as claimed: a render or parse leaves the field, the snapshot and the
\* submitted data as they were, a repeated call returns what it returned
\* before, and a parse result depends on the field's own keys only
C9_AsClaimed ==
    [][op' \in {"render", "parse"} =>
          /\ obj' = obj
          /\ config' = config
          /\ data' = data
          /\ op = op' => ret' = ret
          /\ op' = "parse" => ret' = ParseOf(obj, OwnData(obj, data))]_vars

\* C9: a render or parse leaves the field, the snapshot and the submitted data
\* as they were; a repeated parse returns what it returned before, and so does
\* a repeated render, except that the markup of a location carries the map
\* key the global configuration holds at the time of the call; a parse
\* result depends on the field's own keys only
C9_Pure ==
    [][op' \in {"render", "parse"} =>
          /\ obj' = obj
          /\ config' = config
          /\ data' = data
          /\ op = op' =>
                \/ ret' = ret
                \/ op = "render" /\ IsLocation(obj) /\ SameButKey(ret, ret')
          /\ op' = "parse" => ret' = ParseOf(obj, OwnData(obj, data))]_vars

\* a location was rendered and the map key was changed afterwards
C9_Witness ==
    /\ Rendered
    /\ IsLocation(obj)
    /\ ~IsError(ret)
    /\ ret.input.key # mapsKey

\* the options whose value is in the list l
Listed(f, l) == {i \in 1..Len(f.options) : f.options[i].value \in Elements(l)}

\* C10: a multi-checkbox rendered with the list S as current value emits one
\* box per option, named "{id}-{value}", checked exactly when the value is in
\* S; when that form comes back, parse returns the declared options in S, in
\* declaration order: S itself, as a set, when S holds declared values only
C10_RoundTrip ==
    (IsMulti(obj) /\ obj.id \in DOMAIN config) =>
        LET S == config[obj.id].v
        IN  /\ Rendered =>
                  /\ Len(ret.input.boxes) = Len(obj.options)
                  /\ \A i \in 1..Len(obj.options) :
                        /\ ret.input.boxes[i].name = obj.id \o <<"-">> \o obj.options[i].value
                        /\ ret.input.boxes[i].checked <=> obj.options[i].value \in Elements(S)
            /\ Parsed =>
                  /\ DOMAIN data = {obj.id \o <<"-">> \o obj.options[i].value : i \in Listed(obj, S)}
                  /\ IsPatch(ret)
                  /\ ListsInOrder(ret.v[obj.id].v, obj, Listed(obj, S))
                  /\ Elements(S) \subseteq Elements(OptionValues(obj.options)) =>
                        Elements(ret.v[obj.id].v) = Elements(S)

\* the snapshot held [C, A]; the rendered form came back and parsed as [A, C]
C10_Witness ==
    /\ Parsed
    /\ obj.cls = "MultiCheckboxInput"
    /\ obj.id \in DOMAIN config
    /\ config[obj.id] = ListV(<< <<"C">>, <<"A">> >>)
    /\ ret = Patch(obj.id :> ListV(<< <<"A">>, <<"C">> >>))

====
